---- MODULE Spec2Model ----
(***************************************************************************)
(* Model of modregulafalsi.py: bracket acquisition (prepareinput,          *)
(* findnewinput, newguessbydecay) and the modified regula falsi loop       *)
(* (modregulafalsi, FalsiFunction).                                        *)
(*                                                                         *)
(* Numbers.  The program computes in binary floating point.  The model     *)
(* computes in decimal fixed point: a real v is the integer v * Scale.     *)
(* Products of two function values are only ever tested for their sign,    *)
(* and are formed exactly.  A quotient is rounded to the nearest           *)
(* representable number, as a float quotient is.  alpha and beta are kept  *)
(* in halves (1 is 0.5, 2 is 1.0) so that 0.5 needs no rounding.           *)
(***************************************************************************)
EXTENDS Integers, Sequences, FiniteSets

\* ---- bounds of the model -------------------------------------------------
Scale == 1000        \* fixed-point units per 1.0
MaxAbs == 3000       \* abscissas followed by the model: |x| <= MaxAbs / Scale
KMax == 2            \* the solver's k is only tested as k > 1: it saturates here
MaxCalls == 2        \* calls of the entry point in one behaviour

\* ---- program constants ---------------------------------------------------
tolerance == Scale \div 20      \* 0.05
resolution == 0                 \* 0.0
Cap == 1000                     \* range(1000)
Half == 1                       \* 0.5 in halves
One == 2                        \* 1 in halves

\* ---- arithmetic ----------------------------------------------------------
Abs(x) == IF x < 0 THEN -x ELSE x

\* n / d rounded to the nearest integer, d > 0
RoundPos(n, d) ==
  LET q == n \div d
      r == n - q * d
  IN IF 2 * r >= d THEN q + 1 ELSE q

\* n / d rounded to the nearest integer, d # 0
RoundDiv(n, d) == IF d > 0 THEN RoundPos(n, d) ELSE RoundPos(-n, -d)

\* fixed-point product of two abscissas
Mul(x, y) == RoundDiv(x * y, Scale)

\* the abscissas the model follows; a run that leaves them ends in pc = "range"
InRange(x) == Abs(x) <= MaxAbs

\* ---- the callables handed to the program ---------------------------------
Funcs == {"cubic", "parabola", "quarter", "line", "steep", "const"}

\* the example of the repository: t^3 + t - 1
example(t) == Mul(Mul(t, t), t) + t - Scale

\* FalsiFunction.evaluate / func(x): the value of the callable at x
Eval(f, x) ==
  CASE f = "cubic"    -> example(x)
    [] f = "parabola" -> Mul(x, x) + Scale              \* t^2 + 1, no root
    [] f = "quarter"  -> Mul(x, x) - Scale \div 4       \* t^2 - 1/4, roots at -0.5 and 0.5
    [] f = "line"     -> Scale - 2 * x                  \* 1 - 2t, decaying, root at 0.5
    [] f = "steep"    -> 8 * x - (5 * Scale + 457)      \* 8t - 5.457, -0.001 at 0.682
    [] f = "const"    -> Scale                          \* 1, zero slope

\* the initial guesses a caller may pass
Guesses == {-1000, -500, 0, 500, 682, 1000, 2000}

\* ---- the conditions of the code ------------------------------------------
SignChange_orzero(x, y) == x * y <= 0

\* x * y < 0: the two values have strictly opposite sign
SignChange(x, y) == x * y < 0

Converged_nofloor(v) == v < tolerance

\* the while condition of modregulafalsi, negated: 0.0 <= f(ck) < tolerance
Converged(v) == 0 <= v /\ v < tolerance

RootBetween_flipped(fak, fck) == fak * fck >= 0

\* (fak * fck) <= 0: the root is between ak and ck
RootBetween(fak, fck) == fak * fck <= 0

Stagnant_fromfirst(kk, fck, fprev) == kk > 0 /\ fck * fprev > 0

\* k > 1 and (fck * fck1) > 0: the interior value kept its sign
Stagnant(kk, fck, fprev) == kk > 1 /\ fck * fprev > 0

\* ---- FalsiFunction -------------------------------------------------------
\* A quotient is a record: ok is FALSE when the division raises
\* ZeroDivisionError, and x is the quotient otherwise.
Quot(n, d) == IF d = 0 THEN [ok |-> FALSE, x |-> 0]
                       ELSE [ok |-> TRUE, x |-> RoundDiv(n, d)]

newx_regfalsi(f, a, b) ==
  LET fa0 == Eval(f, a)
      fb0 == Eval(f, b)
  IN Quot(a * fb0 - b * fa0, fb0 - fa0)

newx_modregfalsi(f, a, b, al, be) ==
  LET fa0 == Eval(f, a)
      fb0 == Eval(f, b)
  IN Quot(a * be * fb0 - b * al * fa0, be * fb0 - al * fa0)

\* ---- bracket finder ------------------------------------------------------
\* slope = (fb - fa) / (b - a) is kept as the exact fraction; the division
\* by b - a raises when a = b and the division by slope when fb = fa.
newguessbydecay(f, a, b) ==
  LET fa0 == Eval(f, a)
      fb0 == Eval(f, b)
      neg == (fb0 - fa0) * (b - a) < 0        \* slope < 0
      y == IF fa0 < 0
             THEN IF neg THEN Abs(fb0) ELSE 2 * Abs(fb0)
             ELSE IF neg THEN -2 * Abs(fb0) ELSE -Abs(fb0)
      q == Quot((y - fa0) * (b - a), fb0 - fa0)
  IN IF b = a \/ ~q.ok THEN [ok |-> FALSE, x |-> 0]
                       ELSE [ok |-> TRUE, x |-> q.x + a]

prepareinput_bfirst(f, a, b) ==
  LET fa0 == Eval(f, a)
      fb0 == Eval(f, b)
  IN IF fb0 = 0 THEN [tag |-> "root", x |-> b]
     ELSE IF fa0 = 0 THEN [tag |-> "root", x |-> a]
     ELSE IF fa0 * fb0 < 0 THEN [tag |-> "pair", x |-> 0]
     ELSE [tag |-> "search", x |-> 0]

prepareinput_nocheck(f, a, b) ==
  LET fa0 == Eval(f, a)
      fb0 == Eval(f, b)
  IN IF fa0 = 0 THEN [tag |-> "root", x |-> a]
     ELSE IF fb0 = 0 THEN [tag |-> "root", x |-> b]
     ELSE [tag |-> "search", x |-> 0]

\* prepareinput up to its call of findnewinput
prepareinput(f, a, b) ==
  LET fa0 == Eval(f, a)
      fb0 == Eval(f, b)
  IN IF fa0 = 0 THEN [tag |-> "root", x |-> a]
     ELSE IF fb0 = 0 THEN [tag |-> "root", x |-> b]
     ELSE IF SignChange(fa0, fb0) THEN [tag |-> "pair", x |-> 0]
     ELSE [tag |-> "search", x |-> 0]

\* One pass of the for loop of findnewinput from the pair (a, b) with the
\* cached values ofa = fa and ofb = fb; heads is rannum < 0.5.
\*   tag "raise": newguessbydecay raised ZeroDivisionError
\*   tag "range": the new guess left the abscissas the model follows
\*   tag "root":  return c0
\*   tag "pair":  return a, b
\*   tag "next":  the pass ended without a return
findnewinput_pass(f, a, b, ofa, ofb, heads) ==
  LET g == newguessbydecay(f, a, b)
      c0 == g.x
      fc == Eval(f, c0)
      inside == ~(c0 < a) /\ ~(c0 > b)
      na == IF c0 < a THEN c0
            ELSE IF c0 > b THEN b
            ELSE IF heads THEN c0 ELSE a
      nb == IF c0 < a THEN a
            ELSE IF c0 > b THEN c0
            ELSE IF heads THEN b ELSE c0
      nfa == Eval(f, na)
      nfb == Eval(f, nb)
      base == [tag |-> "next", a |-> a, b |-> b, fa |-> ofa, fb |-> ofb,
               x |-> 0, drew |-> FALSE]
  IN IF ~g.ok THEN [base EXCEPT !.tag = "raise"]
     ELSE IF ~InRange(c0) THEN [base EXCEPT !.tag = "range"]
     ELSE IF inside /\ fc = 0 THEN [base EXCEPT !.tag = "root", !.x = c0]
     ELSE IF inside /\ SignChange(ofa, fc) THEN [base EXCEPT !.tag = "pair", !.b = c0]
     ELSE IF inside /\ SignChange(fc, ofb) THEN [base EXCEPT !.tag = "pair", !.a = c0]
     ELSE [tag |-> IF SignChange(nfa, nfb) THEN "pair" ELSE "next",
           a |-> na, b |-> nb, fa |-> nfa, fb |-> nfb, x |-> 0, drew |-> inside]

\* ---- state ---------------------------------------------------------------
VARIABLES
  entry,     \* the function the caller calls: "modregulafalsi" or "findnewinput"
  func,      \* the callable
  a0in,      \* the caller's a0
  b0in,      \* the caller's b0
  pc,        \* "call", "search" (for loop of findnewinput), "setup" (lines 43-55),
             \* "solve" (while loop), "done" (returned), "raised", "range"
  a0, b0,    \* the pair of findnewinput, then the pair handed to the solver
  fa, fb,    \* fa and fb of findnewinput
  probe,     \* k of the for loop of findnewinput
  ak, bk, ck, fck1, alpha, beta, k,    \* locals of modregulafalsi
  result,    \* the value returned, when path is not "pair"
  path,      \* the return statement taken: "none", "guess", "searchroot",
             \* "pair", "resolution", "exactck", "loopexit"
  raisedin,  \* the function whose division raised: "none", "newguessbydecay",
             \* "newx_regfalsi", "newx_modregfalsi"
  searched,  \* history: how findnewinput ended in this call: "no" (not entered),
             \* "running", "root", "pair", "exhausted", "raised"
  draws,     \* history: random() was called in this call
  bodyck,    \* history: the ck of the last pass of the while body
  passes,    \* history: passes of the while body so far, saturating at KMax
  calls,     \* history: calls made by the caller so far
  again,     \* history: how the last call was made: "first", "same", "root"
  prevresult \* history: the value the call before returned

vars == <<entry, func, a0in, b0in, pc, a0, b0, fa, fb, probe, ak, bk, ck, fck1,
          alpha, beta, k, result, path, raisedin, searched, draws, bodyck,
          passes, calls, again, prevresult>>

inputs == <<entry, func, a0in, b0in>>
finder == <<a0, b0, fa, fb, probe>>
solver == <<ak, bk, ck, fck1, alpha, beta, k>>
solverhist == <<bodyck, passes>>
callhist == <<calls, again, prevresult>>

\* the locals of a call before any of them is assigned
Fresh ==
  /\ a0 = 0 /\ b0 = 0 /\ fa = 0 /\ fb = 0 /\ probe = 0
  /\ ak = 0 /\ bk = 0 /\ ck = 0 /\ fck1 = 0 /\ alpha = One /\ beta = One /\ k = 0
  /\ result = 0 /\ path = "none" /\ raisedin = "none"
  /\ searched = "no" /\ draws = FALSE
  /\ bodyck = 0 /\ passes = 0

Init ==
  /\ entry \in {"modregulafalsi", "findnewinput"}
  /\ func \in Funcs
  /\ a0in \in Guesses
  /\ b0in \in Guesses
  /\ pc = "call"
  /\ Fresh
  /\ calls = 1 /\ again = "first" /\ prevresult = 0

\* ---- modregulafalsi, lines 39-47, with prepareinput ----------------------
Prepare ==
  /\ pc = "call" /\ entry = "modregulafalsi"
  /\ LET p == prepareinput(func, a0in, b0in)
     IN /\ pc' = CASE p.tag = "root" -> "done"
                   [] p.tag = "pair" -> "setup"
                   [] p.tag = "search" -> "search"
        /\ result' = IF p.tag = "root" THEN p.x ELSE result
        /\ path' = IF p.tag = "root" THEN "guess" ELSE path
        /\ searched' = IF p.tag = "search" THEN "running" ELSE searched
  /\ a0' = a0in /\ b0' = b0in
  /\ fa' = Eval(func, a0in) /\ fb' = Eval(func, b0in)
  /\ UNCHANGED <<inputs, probe, solver, raisedin, draws, solverhist, callhist>>

\* ---- findnewinput called by the caller, lines 213-215 --------------------
CallFindNewInput ==
  /\ pc = "call" /\ entry = "findnewinput"
  /\ pc' = "search"
  /\ a0' = a0in /\ b0' = b0in
  /\ fa' = Eval(func, a0in) /\ fb' = Eval(func, b0in)
  /\ searched' = "running"
  /\ UNCHANGED <<inputs, probe, solver, result, path, raisedin, draws,
                 solverhist, callhist>>

\* ---- findnewinput: one pass of the for loop, lines 218-251 ---------------
Probe ==
  /\ pc = "search"
  /\ \E heads \in BOOLEAN :
     \E r \in {findnewinput_pass(func, a0, b0, fa, fb, heads)} :
       LET last == probe = Cap - 1
           ret == r.tag = "pair" \/ (r.tag = "next" /\ last)
       IN /\ pc' = CASE r.tag = "raise" -> "raised"
                     [] r.tag = "range" -> "range"
                     [] r.tag = "root" -> "done"
                     [] ret -> IF entry = "modregulafalsi" THEN "setup" ELSE "done"
                     [] OTHER -> "search"
          /\ a0' = r.a /\ b0' = r.b /\ fa' = r.fa /\ fb' = r.fb
          /\ probe' = IF r.tag = "next" /\ ~last THEN probe + 1 ELSE probe
          /\ result' = IF r.tag = "root" THEN r.x ELSE result
          /\ path' = CASE r.tag = "root" -> "searchroot"
                       [] ret /\ entry = "findnewinput" -> "pair"
                       [] OTHER -> path
          /\ raisedin' = IF r.tag = "raise" THEN "newguessbydecay" ELSE raisedin
          /\ searched' = CASE r.tag = "raise" -> "raised"
                           [] r.tag = "root" -> "root"
                           [] r.tag = "pair" -> "pair"
                           [] r.tag = "next" /\ last -> "exhausted"
                           [] OTHER -> searched
          /\ draws' = (draws \/ r.drew)
  /\ UNCHANGED <<inputs, solver, solverhist, callhist>>

\* ---- modregulafalsi, lines 43-55 -----------------------------------------
Setup ==
  /\ pc = "setup"
  /\ LET c == newx_regfalsi(func, a0, b0)
     IN /\ pc' = IF ~c.ok THEN "raised"
                 ELSE IF ~InRange(c.x) THEN "range" ELSE "solve"
        /\ ck' = IF c.ok THEN c.x ELSE ck
        /\ raisedin' = IF c.ok THEN raisedin ELSE "newx_regfalsi"
  /\ ak' = a0 /\ bk' = b0 /\ fck1' = -Scale /\ k' = 0
  /\ UNCHANGED <<inputs, finder, alpha, beta, result, path, searched, draws,
                 solverhist, callhist>>

\* ---- modregulafalsi: the test and one pass of the while loop, lines 58-98 -
Iterate ==
  /\ pc = "solve"
  /\ LET fck == Eval(func, ck)
         fak == Eval(func, ak)
         k1 == IF k < KMax THEN k + 1 ELSE k
         close == Abs(ak - ck) <= resolution
         left == RootBetween(fak, fck)
         damp == Stagnant(k1, fck, fck1)
         nak == IF left THEN ak ELSE ck
         nbk == IF left THEN ck ELSE bk
         nal == IF left /\ damp THEN Half ELSE One
         nbe == IF ~left /\ damp THEN Half ELSE One
         c == newx_modregfalsi(func, nak, nbk, nal, nbe)
     IN IF Converged(fck)
          THEN /\ pc' = "done" /\ result' = ck /\ path' = "loopexit"
               /\ UNCHANGED <<solver, raisedin, solverhist>>
          ELSE /\ k' = k1
               /\ bodyck' = ck
               /\ passes' = IF passes < KMax THEN passes + 1 ELSE passes
               /\ IF close
                    THEN /\ pc' = "done" /\ path' = "resolution"
                         /\ result' = IF fak >= 0 THEN ak ELSE ck
                         /\ alpha' = One /\ beta' = One
                         /\ UNCHANGED <<ak, bk, ck, fck1, raisedin>>
                  ELSE IF left /\ fck = 0
                    THEN /\ pc' = "done" /\ path' = "exactck" /\ result' = ck
                         /\ alpha' = One /\ beta' = One
                         /\ UNCHANGED <<ak, bk, ck, fck1, raisedin>>
                  ELSE /\ ak' = nak /\ bk' = nbk
                       /\ alpha' = nal /\ beta' = nbe
                       /\ fck1' = fck
                       /\ pc' = IF ~c.ok THEN "raised"
                                ELSE IF ~InRange(c.x) THEN "range" ELSE "solve"
                       /\ ck' = IF c.ok THEN c.x ELSE ck
                       /\ raisedin' = IF c.ok THEN raisedin ELSE "newx_modregfalsi"
                       /\ UNCHANGED <<result, path>>
  /\ UNCHANGED <<inputs, finder, searched, draws, callhist>>

\* ---- the caller ----------------------------------------------------------
NewCall ==
  /\ pc' = "call"
  /\ a0' = 0 /\ b0' = 0 /\ fa' = 0 /\ fb' = 0 /\ probe' = 0
  /\ ak' = 0 /\ bk' = 0 /\ ck' = 0 /\ fck1' = 0 /\ alpha' = One /\ beta' = One
  /\ k' = 0 /\ result' = 0 /\ path' = "none" /\ raisedin' = "none"
  /\ searched' = "no" /\ draws' = FALSE
  /\ bodyck' = 0 /\ passes' = 0
  /\ calls' = calls + 1 /\ prevresult' = result

\* modregulafalsi is called again with the same arguments
CallAgain ==
  /\ pc = "done" /\ entry = "modregulafalsi" /\ calls < MaxCalls
  /\ NewCall
  /\ again' = "same"
  /\ UNCHANGED inputs

\* modregulafalsi is called again with the exact root it returned as a0 and b0
CallAgainWithRoot ==
  /\ pc = "done" /\ entry = "modregulafalsi" /\ calls < MaxCalls
  /\ Eval(func, result) = 0
  /\ NewCall
  /\ again' = "root"
  /\ a0in' = result /\ b0in' = result
  /\ UNCHANGED <<entry, func>>

Next ==
  \/ Prepare
  \/ CallFindNewInput
  \/ Probe
  \/ Setup
  \/ Iterate
  \/ CallAgain
  \/ CallAgainWithRoot

Spec == Init /\ [][Next]_vars

\* ==== properties ==========================================================
\* the value of the callable of this behaviour at x
F(x) == Eval(func, x)

\* the caller's guesses bracket a root: f(a0) * f(b0) < 0
GuessesBracket == F(a0in) * F(b0in) < 0

\* the caller's guesses have the same sign and neither is a root
GuessesSameSign == F(a0in) * F(b0in) > 0

\* the pair handed to the solver brackets a root
StartBracket == F(a0) * F(b0) < 0

\* C1. Root validity: a value x returned by modregulafalsi has
\* |f(x)| < tolerance, unless the resolution early exit returned it.
RootValidity ==
  (entry = "modregulafalsi" /\ pc = "done" /\ path # "resolution")
    => Abs(F(result)) < tolerance

\* C1 happens: the loop exit returned a value with a nonzero residual, after
\* a bracket search.
RootValidityWitness ==
  /\ entry = "modregulafalsi" /\ pc = "done" /\ path = "loopexit"
  /\ searched = "pair" /\ passes >= 1 /\ F(result) # 0

\* C2. Convergence rule, as claimed: the while body never runs for a ck with
\* |f(ck)| < tolerance, whatever the sign of f(ck).
ConvergenceEitherSign ==
  passes >= 1 => ~(Abs(F(bodyck)) < tolerance)

\* C3. Bracket invariant: started from f(ak) * f(bk) < 0, at every test of
\* the while loop f(ak) and f(bk) have strictly opposite sign or one is zero,
\* and a pass that goes on to the next ck replaces exactly one endpoint by
\* ck: bk when f(ak) * f(ck) <= 0 and f(ck) # 0, otherwise ak.
BracketInvariant ==
  /\ []((pc = "solve" /\ StartBracket)
          => (F(ak) * F(bk) < 0 \/ F(ak) = 0 \/ F(bk) = 0))
  /\ [][(pc = "solve" /\ pc' = "solve" /\ StartBracket)
          => IF F(ak) * F(ck) <= 0 /\ F(ck) # 0
               THEN bk' = ck /\ ak' = ak
               ELSE ak' = ck /\ bk' = bk]_vars

\* C3 happens: after two passes from a bracket both endpoints have moved.
BracketInvariantWitness ==
  /\ pc = "solve" /\ StartBracket /\ passes >= 2
  /\ ak # a0 /\ bk # b0

\* C4. Exhaustion is reported, as claimed: the solver is never run on a pair
\* whose function values have the same sign.
ExhaustionReported ==
  (entry = "modregulafalsi" /\ pc \in {"setup", "solve"}) => StartBracket

\* C5. Exact root at a guess: f(a0) = 0 returns a0 (also when f(b0) = 0),
\* otherwise f(b0) = 0 returns b0, in both cases without the bracket search
\* and without the solver; calling again with a returned exact root as a0
\* and b0 returns that root.
ExactRootAtGuess ==
  /\ (entry = "modregulafalsi" /\ pc # "call" /\ F(a0in) = 0)
       => (pc = "done" /\ path = "guess" /\ result = a0in
           /\ searched = "no" /\ passes = 0)
  /\ (entry = "modregulafalsi" /\ pc # "call" /\ F(a0in) # 0 /\ F(b0in) = 0)
       => (pc = "done" /\ path = "guess" /\ result = b0in
           /\ searched = "no" /\ passes = 0)
  /\ (again = "root" /\ pc # "call")
       => (pc = "done" /\ result = prevresult)

\* C5 happens: a root the solver computed was passed again as a0 and b0 and
\* came back.
ExactRootAtGuessWitness ==
  again = "root" /\ pc = "done" /\ path = "guess" /\ result = prevresult

\* C6. Determinism: when the guesses bracket a root, prepareinput hands
\* (a0, b0) on unchanged, findnewinput is not entered, random() is not
\* called, and a second call with the same arguments returns the same value.
Determinism ==
  (entry = "modregulafalsi" /\ pc # "call" /\ GuessesBracket)
    => /\ searched = "no" /\ ~draws
       /\ a0 = a0in /\ b0 = b0in
       /\ ((again = "same" /\ pc = "done") => result = prevresult)

\* C6 happens: a second call on a bracketing pair returned after two passes.
DeterminismWitness ==
  /\ again = "same" /\ pc = "done" /\ GuessesBracket
  /\ path = "loopexit" /\ passes >= 2 /\ result = prevresult

\* C7. findnewinput called with a bracketing pair returns it unchanged, as
\* claimed.
FindNewInputKeepsBracket ==
  (entry = "findnewinput" /\ pc = "done" /\ path = "pair" /\ GuessesBracket)
    => (a0 = a0in /\ b0 = b0in)

\* C8. The bracket search returns a sign change: from a same-sign nonzero
\* pair, a pair returned before the cap has f(lo) * f(hi) < 0, a single value
\* returned is an exact root, and fa, fb are the values at the current pair.
SearchReturnsSignChange ==
  GuessesSameSign
    => /\ (searched = "pair" => F(a0) * F(b0) < 0)
       /\ ((searched = "root" /\ pc = "done") => F(result) = 0)
       /\ (pc = "search" => (fa = F(a0) /\ fb = F(b0)))

\* C8 happens: the search returned a pair after more than one pass.
SearchReturnsSignChangeWitness ==
  GuessesSameSign /\ searched = "pair" /\ probe >= 1

\* C9. Illinois damping: a pass that computes the next ck leaves alpha and
\* beta in {0.5, 1}; alpha is 0.5 exactly when bk was replaced, the pass is
\* not the first, and f(ck) has the sign of f at the ck of the pass before;
\* beta likewise when ak was replaced; never both, never in the first pass.
IllinoisDamping ==
  [][(pc = "solve" /\ pc' # "done" /\ pc' # "call")
       => LET repeated == passes >= 1 /\ F(ck) * F(bodyck) > 0
          IN /\ alpha' \in {Half, One} /\ beta' \in {Half, One}
             /\ (alpha' = Half <=> (bk' = ck /\ ak' = ak /\ repeated))
             /\ (beta' = Half <=> (ak' = ck /\ ak' # ak /\ repeated))
             /\ ~(alpha' = Half /\ beta' = Half)
             /\ (passes = 0 => (alpha' = One /\ beta' = One))]_vars

\* C9 happens: alpha was halved in a second or later pass.
IllinoisDampingWitness ==
  pc = "solve" /\ passes >= 2 /\ alpha = Half /\ beta = One

\* C10. No zero denominator, as claimed: neither newx_regfalsi nor
\* newx_modregfalsi ever divides by zero in a run of modregulafalsi.
NoZeroDenominator ==
  entry = "modregulafalsi"
    => raisedin \notin {"newx_regfalsi", "newx_modregfalsi"}

====
